---- MODULE Spec2Model ----
(***************************************************************************)
(* Model of scripts/extract-wad.py (PAK reader, palette loader, WAD2       *)
(* reader, QPIC decoder, main) and Shaders/pipeline.py (the '&&' command   *)
(* sequencer).                                                             *)
(*                                                                         *)
(* Byte strings are sequences of integers 0..255, text strings are         *)
(* sequences of code points, Python dicts are functions whose DOMAIN is    *)
(* the key set.  Offsets are 0-based as in the source; TLA+ sequences are  *)
(* 1-based, so byte k of the source is element k+1 here.                   *)
(*                                                                         *)
(* Three specifications:                                                   *)
(*   Spec      - main() of extract-wad.py, invoked NumRuns times on one    *)
(*               archive and one output directory;                         *)
(*   SpecParse - read_pak, read_wad and qpic_to_image, each applied to     *)
(*               generated inputs;                                         *)
(*   SpecPipe  - pipeline.py.                                              *)
(*                                                                         *)
(* Outside the model: console output (print is taken to succeed); the PNG  *)
(* encoder (a file's content is the raster handed to img.save); failures   *)
(* of img.save other than a missing parent directory; 32-bit fields whose  *)
(* value needs more than 31 bits.                                          *)
(***************************************************************************)
EXTENDS Integers, Sequences, FiniteSets, TLC

VARIABLES
    \* ---- parsing functions run on their own (SpecParse) ----
    mode,        \* which function runs: "pak", "wad" or "qpic"
    data,        \* the input bytes: file content, WAD2 buffer or QPIC lump
    status,      \* "init", "run", "ok", "ValueError", "struct.error"
    pos,         \* read_pak: f.tell() at the top of the loop body
    i,           \* loop counter of read_pak / read_wad
    entries,     \* read_pak: the dict being built
    wlumps,      \* read_wad: the dict being built
    inpal,       \* qpic_to_image: the palette argument
    img,         \* qpic_to_image: the returned image
    \* ---- main() (Spec) ----
    pc,          \* where main is: "start", "read", "palette", "wad", "mkdir",
                 \* "loop", "done"
    argc,        \* len(sys.argv)
    pak,         \* content of the file at pak_path
    canOpen,     \* open(pak_path, "rb") succeeds
    canMkdir,    \* output_dir.mkdir(parents=True, exist_ok=True) succeeds
    pak_entries, palette, lumps, count, skipped,     \* main's locals
    li,          \* items of sorted(lumps.items()) already consumed
    dirMade,     \* this run has executed the mkdir
    fs,          \* files in output_dir: path below output_dir -> image
    attempted,   \* names passed to qpic_to_image in this run
    wrote,       \* paths saved in this run
    exitcode,    \* process exit status, -1 while running
    run,         \* number of the current invocation
    reports,     \* per finished invocation: exit status, summary, files
    \* ---- pipeline.py (SpecPipe) ----
    argv,        \* sys.argv[1:]
    ppc,         \* "split", "run", "done"
    ai,          \* arguments consumed by the splitting loop
    current, commands,                               \* the script's globals
    ci,          \* commands consumed by the running loop
    started,     \* the commands handed to subprocess.run, in order
    rcs,         \* the return code of each finished child, in order
    pexit        \* exit status of the script, -1 while running

parseVars == <<mode, data, status, pos, i, entries, wlumps, inpal, img>>
mainVars  == <<pc, argc, pak, canOpen, canMkdir, pak_entries, palette, lumps,
               count, skipped, li, dirMade, fs, attempted, wrote, exitcode,
               run, reports>>
pipeVars  == <<argv, ppc, ai, current, commands, ci, started, rcs, pexit>>
vars == <<parseVars, mainVars, pipeVars>>

----------------------------------------------------------------------------
(* Byte-string and dict primitives                                         *)

MinOf(a, b) == IF a <= b THEN a ELSE b

\* Python slice data[a:b] for 0 <= a; short or empty past the end.
Slice(bytes, a, b) == SubSeq(bytes, a + 1, MinOf(b, Len(bytes)))

\* struct "<I": one little-endian unsigned 32-bit integer at offset off.
unpack_u32(bytes, off) ==
    bytes[off + 1] + 256 * bytes[off + 2] + 65536 * bytes[off + 3]
        + 16777216 * bytes[off + 4]

\* raw.split(b"\x00", 1)[0]
CutAtNul(raw) ==
    LET nuls == {k \in 1..Len(raw) : raw[k] = 0}
    IN  IF nuls = {} THEN raw
        ELSE SubSeq(raw, 1, (CHOOSE k \in nuls : \A j \in nuls : k <= j) - 1)

\* .decode("ascii", errors="replace"): a byte >= 0x80 becomes U+FFFD.
decode_ascii(raw) ==
    [k \in 1..Len(raw) |-> IF raw[k] >= 128 THEN 65533 ELSE raw[k]]

\* str.lower() on the code points that can occur (ASCII and U+FFFD).
lower(s) == [k \in 1..Len(s) |-> IF s[k] \in 65..90 THEN s[k] + 32 ELSE s[k]]

EmptyDict == [k \in {} |-> <<>>]

\* d[key] = val
DictSet(d, key, val) ==
    [k \in DOMAIN d \cup {key} |-> IF k = key THEN val ELSE d[k]]

----------------------------------------------------------------------------
(* read_pak                                                                *)

PACK == <<80, 65, 67, 75>>      \* b"PACK"
PAK_ENTRY_SIZE == 64
PAK_NAME_SIZE == 56

\* Lines 22-27: magic check, header unpack, num_entries, seek(dir_offset).
pak_header(file) ==
    LET magic == Slice(file, 0, 4)
        hdr   == Slice(file, Len(magic), Len(magic) + 8)
    IN  IF magic # PACK
          THEN [status |-> "ValueError", dir_offset |-> 0, num_entries |-> 0]
        ELSE IF Len(hdr) < 8
          THEN [status |-> "struct.error", dir_offset |-> 0, num_entries |-> 0]
        ELSE [status |-> "run",
              dir_offset  |-> unpack_u32(hdr, 0),
              num_entries |-> unpack_u32(hdr, 4) \div PAK_ENTRY_SIZE]

\* entries[name.lower()] = f.read(size)  (mutated by the first-wins variant)
pak_store_first(es, name, payload) ==
    IF name \in DOMAIN es THEN es ELSE DictSet(es, name, payload)

pak_store(es, name, payload) == DictSet(es, name, payload)

\* Lines 32-34: f.seek(offset); f.read(size), with the file at position cur
\* (mutated by the variant that omits the seek and reads on from cur)
pak_payload_noseek(file, cur, offset, size) == Slice(file, cur, cur + size)

pak_payload(file, cur, offset, size) == Slice(file, offset, offset + size)

\* Lines 29-35: one iteration of the directory loop, from file position p.
pak_entry(file, p, es) ==
    LET name_raw == Slice(file, p, p + PAK_NAME_SIZE)
        p1       == p + Len(name_raw)
        raw8     == Slice(file, p1, p1 + 8)
    IN  IF Len(raw8) < 8
          THEN [status |-> "struct.error", pos |-> p1 + Len(raw8), entries |-> es]
        ELSE LET offset == unpack_u32(raw8, 0)
                 size   == unpack_u32(raw8, 4)
                 name   == decode_ascii(CutAtNul(name_raw))
             IN  [status  |-> "run",
                  pos     |-> p1 + 8,
                  entries |-> pak_store(es, lower(name),
                                        pak_payload(file, p1 + 8, offset, size))]

RECURSIVE pak_loop(_, _, _)
pak_loop(file, st, n) ==
    IF n = 0 \/ st.status # "run" THEN st
    ELSE pak_loop(file, pak_entry(file, st.pos, st.entries), n - 1)

\* The whole function: [status, entries].
read_pak(file) ==
    LET h == pak_header(file)
    IN  IF h.status # "run" THEN [status |-> h.status, entries |-> EmptyDict]
        ELSE LET r == pak_loop(file, [status |-> "run", pos |-> h.dir_offset,
                                      entries |-> EmptyDict], h.num_entries)
             IN  [status  |-> IF r.status = "run" THEN "ok" ELSE r.status,
                  entries |-> IF r.status = "run" THEN r.entries ELSE EmptyDict]

----------------------------------------------------------------------------
(* read_palette                                                            *)

PALETTE_BYTES == 768

\* a = 0 if i == 255 else 255  (mutated by the all-opaque variant)
palette_alpha_opaque(idx) == 255

palette_alpha(idx) == IF idx = 255 THEN 0 ELSE 255

\* [status, palette]; the palette is indexed 0..255 like the Python list.
read_palette(blob) ==
    IF Len(blob) < PALETTE_BYTES
      THEN [status |-> "ValueError", palette |-> <<>>]
    ELSE [status  |-> "ok",
          palette |-> [idx \in 0..255 |->
                         <<blob[idx * 3 + 1], blob[idx * 3 + 2],
                           blob[idx * 3 + 3], palette_alpha(idx)>>]]

----------------------------------------------------------------------------
(* read_wad                                                                *)

WAD2 == <<87, 65, 68, 50>>      \* b"WAD2"
WAD_ENTRY_SIZE == 32
WAD_UNPACK_SIZE == 14           \* struct.calcsize("<IIIBb")

\* Lines 54-57 without the magic test  (the variant that accepts any tag)
wad_header_nomagic(buf) ==
    IF Len(buf) - 4 < 8
      THEN [status |-> "struct.error", num_lumps |-> 0, dir_offset |-> 0]
    ELSE [status |-> "run",
          num_lumps  |-> unpack_u32(buf, 4),
          dir_offset |-> unpack_u32(buf, 8)]

\* Lines 54-57: magic check and header unpack_from(data, 4).
wad_header(buf) ==
    IF Slice(buf, 0, 4) # WAD2
      THEN [status |-> "ValueError", num_lumps |-> 0, dir_offset |-> 0]
    ELSE IF Len(buf) - 4 < 8
      THEN [status |-> "struct.error", num_lumps |-> 0, dir_offset |-> 0]
    ELSE [status |-> "run",
          num_lumps  |-> unpack_u32(buf, 4),
          dir_offset |-> unpack_u32(buf, 8)]

\* lumps[name] = (lump_type, lump_data)  (mutated by the first-wins variant)
wad_store_first(ls, name, lump) ==
    IF name \in DOMAIN ls THEN ls ELSE DictSet(ls, name, lump)

wad_store(ls, name, lump) == DictSet(ls, name, lump)

\* Lines 60-67: iteration k of the directory loop.
wad_entry(buf, dir_offset, k, ls) ==
    LET entry_offset == dir_offset + k * WAD_ENTRY_SIZE
    IN  IF Len(buf) - entry_offset < WAD_UNPACK_SIZE
          THEN [status |-> "struct.error", lumps |-> ls]
        ELSE LET lump_offset == unpack_u32(buf, entry_offset)
                 disk_size   == unpack_u32(buf, entry_offset + 4)
                 lump_type   == buf[entry_offset + 12 + 1]
                 name_raw    == Slice(buf, entry_offset + 16, entry_offset + 32)
                 name        == lower(decode_ascii(CutAtNul(name_raw)))
                 lump_data   == Slice(buf, lump_offset, lump_offset + disk_size)
             IN  [status |-> "run",
                  lumps  |-> wad_store(ls, name, <<lump_type, lump_data>>)]

RECURSIVE wad_loop(_, _, _, _, _)
wad_loop(buf, dir_offset, k, n, st) ==
    IF k >= n \/ st.status # "run" THEN st
    ELSE wad_loop(buf, dir_offset, k + 1, n, wad_entry(buf, dir_offset, k, st.lumps))

\* The whole function: [status, lumps].
read_wad(buf) ==
    LET h == wad_header(buf)
    IN  IF h.status # "run" THEN [status |-> h.status, lumps |-> EmptyDict]
        ELSE LET r == wad_loop(buf, h.dir_offset, 0, h.num_lumps,
                               [status |-> "run", lumps |-> EmptyDict])
             IN  [status |-> IF r.status = "run" THEN "ok" ELSE r.status,
                  lumps  |-> IF r.status = "run" THEN r.lumps ELSE EmptyDict]

----------------------------------------------------------------------------
(* qpic_to_image                                                           *)

NoImage == [width |-> 0, height |-> 0, pixels |-> <<>>]

\* Line 77: the truncation test  (mutated by the variant that drops it)
qpic_truncated_never(pixels, width, height) == FALSE

qpic_truncated(pixels, width, height) == Len(pixels) < width * height

\* Line 80: one palette lookup  (mutated by the variant that never makes
\* a pixel transparent)
qpic_lookup_opaque(pal, b) == <<pal[b][1], pal[b][2], pal[b][3], 255>>

qpic_lookup(pal, b) == pal[b]

\* [status, img]; img.pixels is the row-major putdata sequence.
qpic_to_image(lump, pal) ==
    IF Len(lump) < 8 THEN [status |-> "struct.error", img |-> NoImage]
    ELSE LET width  == unpack_u32(lump, 0)
             height == unpack_u32(lump, 4)
             pixels == Slice(lump, 8, 8 + width * height)
         IN  IF qpic_truncated(pixels, width, height)
               THEN [status |-> "ValueError", img |-> NoImage]
             ELSE [status |-> "ok",
                   img |-> [width  |-> width,
                            height |-> height,
                            pixels |-> [k \in 1..Len(pixels) |->
                                          qpic_lookup(pal, pixels[k])]]]

TYP_QPIC == 66                  \* 0x42

----------------------------------------------------------------------------
(* Input construction (the writer's side of the formats: struct.pack)      *)

MaxDirLen == 2      \* directory records per generated PAK / WAD2 input
MaxPix == 3         \* pixel bytes per generated QPIC lump

pack_u32(n) ==
    <<n % 256, (n \div 256) % 256, (n \div 65536) % 256, (n \div 16777216) % 256>>

Pad(s, n) == s \o [k \in 1..(n - Len(s)) |-> 0]

RECURSIVE Concat(_)
Concat(ss) == IF ss = <<>> THEN <<>> ELSE Head(ss) \o Concat(Tail(ss))

SeqsUpTo(S, n) == UNION {[1..k -> S] : k \in 0..n}

\* PAK input: 12-byte header, 4 data bytes at offsets 12..15, directory at 16.
PakBlob == <<10, 11, 12, 13>>
PakDirAt == 12 + Len(PakBlob)
PakRecord(r) == Pad(r.name, PAK_NAME_SIZE) \o pack_u32(r.offset) \o pack_u32(r.size)
MkPak(magic, recs, dir_size, tail) ==
    magic \o pack_u32(PakDirAt) \o pack_u32(dir_size) \o PakBlob
          \o Concat([k \in 1..Len(recs) |-> PakRecord(recs[k])]) \o tail

\* "A", "a", "b", and a non-ASCII byte followed by NUL and junk.
PakNames == {<<65>>, <<97>>, <<98>>, <<200, 0, 99>>}
\* Two overlapping regions and one that lies outside the file.
PakRegions == {<<12, 2>>, <<13, 3>>, <<4000, 2>>}
PakRecs == {[name |-> n, offset |-> r[1], size |-> r[2]] :
               n \in PakNames, r \in PakRegions}
\* dir_size = 64*N + slack: exact, one stray byte, or one record that is
\* declared but absent from the file.
PakInputs ==
    {MkPak(m, recs, PAK_ENTRY_SIZE * Len(recs) + slack,
           IF slack = 1 THEN <<0>> ELSE <<>>) :
        m \in {PACK, <<80, 65, 67, 88>>},
        recs \in SeqsUpTo(PakRecs, MaxDirLen),
        slack \in {0, 1, PAK_ENTRY_SIZE}}
    \cup {PACK \o <<16, 0>>}

\* WAD2 input: 12-byte header, data area, directory after the data area.
WadRecord(r) ==
    pack_u32(r.offset) \o pack_u32(r.size) \o pack_u32(r.size)
        \o <<r.type, 0, 0, 0>> \o Pad(r.name, 16)
MkWad(magic, blob, recs, num_lumps) ==
    magic \o pack_u32(num_lumps) \o pack_u32(12 + Len(blob)) \o blob
          \o Concat([k \in 1..Len(recs) |-> WadRecord(recs[k])])

WadBlob == <<20, 21, 22, 23>>
WadNames == {<<65>>, <<97>>, <<98>>}
WadRegions == {<<12, 2>>, <<13, 3>>}
WadRecs == {[name |-> n, type |-> t, offset |-> r[1], size |-> r[2]] :
               n \in WadNames, t \in {TYP_QPIC, 68}, r \in WadRegions}
WadInputs ==
    {MkWad(m, WadBlob, recs, Len(recs) + extra) :
        m \in {WAD2, PACK}, recs \in SeqsUpTo(WadRecs, MaxDirLen), extra \in {0, 1}}
    \cup {WAD2 \o <<1, 0>>}

\* Palette blobs: 768 bytes, in two colourings.
PaletteBlobs ==
    {[k \in 1..n |-> (k * m) % 256] : n \in {PALETTE_BYTES}, m \in {1, 7}}

\* QPIC lumps: every header with small dimensions, every pixel string of up
\* to MaxPix bytes over three indices, and lumps cut inside the header.
QpicInputs ==
    {pack_u32(w) \o pack_u32(h) \o px :
        w \in 0..2, h \in 0..2, px \in SeqsUpTo({0, 7, 255}, MaxPix)}
    \cup {SubSeq(pack_u32(1) \o pack_u32(1), 1, n) : n \in {0, 5, 7}}

----------------------------------------------------------------------------
(* SpecParse: each parsing function applied to generated inputs            *)

MainIdle ==
    /\ pc = "idle" /\ argc = 0 /\ pak = <<>> /\ canOpen = TRUE
    /\ canMkdir = TRUE /\ pak_entries = EmptyDict
    /\ palette = <<>> /\ lumps = EmptyDict /\ dirMade = FALSE
    /\ fs = EmptyDict /\ count = 0 /\ skipped = 0 /\ li = 0
    /\ attempted = {} /\ wrote = {}
    /\ exitcode = -1 /\ run = 0 /\ reports = <<>>

PipeIdle ==
    /\ argv = <<>> /\ ppc = "idle" /\ ai = 0 /\ current = <<>>
    /\ commands = <<>> /\ ci = 0 /\ started = <<>> /\ rcs = <<>> /\ pexit = -1

ParseIdle ==
    /\ mode = "idle" /\ data = <<>> /\ status = "init" /\ pos = 0 /\ i = 0
    /\ entries = EmptyDict /\ wlumps = EmptyDict /\ inpal = <<>>
    /\ img = NoImage

ParseInit ==
    /\ \/ mode = "pak"  /\ data \in PakInputs  /\ inpal = <<>>
       \/ mode = "wad"  /\ data \in WadInputs  /\ inpal = <<>>
       \/ /\ mode = "qpic" /\ data \in QpicInputs
          /\ inpal \in {read_palette(b).palette : b \in PaletteBlobs}
    /\ status = "init" /\ pos = 0 /\ i = 0
    /\ entries = EmptyDict /\ wlumps = EmptyDict /\ img = NoImage
    /\ MainIdle /\ PipeIdle

\* read_pak, lines 20-27
PakOpen ==
    /\ mode = "pak" /\ status = "init"
    /\ LET h == pak_header(data)
       IN  /\ status' = h.status
           /\ pos' = h.dir_offset
    /\ UNCHANGED <<mode, data, i, entries, wlumps, inpal, img, mainVars, pipeVars>>

\* read_pak, lines 28-35: one pass of the loop body
PakEntry ==
    /\ mode = "pak" /\ status = "run"
    /\ i < pak_header(data).num_entries
    /\ LET r == pak_entry(data, pos, entries)
       IN  /\ status' = r.status
           /\ pos' = r.pos
           /\ entries' = IF r.status = "run" THEN r.entries ELSE EmptyDict
    /\ i' = i + 1
    /\ UNCHANGED <<mode, data, wlumps, inpal, img, mainVars, pipeVars>>

\* read_pak, line 36
PakReturn ==
    /\ mode = "pak" /\ status = "run"
    /\ i >= pak_header(data).num_entries
    /\ status' = "ok"
    /\ UNCHANGED <<mode, data, pos, i, entries, wlumps, inpal, img, mainVars, pipeVars>>

\* read_wad, lines 54-58
WadOpen ==
    /\ mode = "wad" /\ status = "init"
    /\ status' = wad_header(data).status
    /\ UNCHANGED <<mode, data, pos, i, entries, wlumps, inpal, img, mainVars, pipeVars>>

\* read_wad, lines 59-67: one pass of the loop body
WadEntry ==
    /\ mode = "wad" /\ status = "run"
    /\ i < wad_header(data).num_lumps
    /\ LET r == wad_entry(data, wad_header(data).dir_offset, i, wlumps)
       IN  /\ status' = r.status
           /\ wlumps' = IF r.status = "run" THEN r.lumps ELSE EmptyDict
    /\ i' = i + 1
    /\ UNCHANGED <<mode, data, pos, entries, inpal, img, mainVars, pipeVars>>

\* read_wad, line 68
WadReturn ==
    /\ mode = "wad" /\ status = "run"
    /\ i >= wad_header(data).num_lumps
    /\ status' = "ok"
    /\ UNCHANGED <<mode, data, pos, i, entries, wlumps, inpal, img, mainVars, pipeVars>>

\* qpic_to_image, lines 75-82
Decode ==
    /\ mode = "qpic" /\ status = "init"
    /\ LET r == qpic_to_image(data, inpal)
       IN  /\ status' = r.status
           /\ img' = r.img
    /\ UNCHANGED <<mode, data, pos, i, entries, wlumps, inpal, mainVars, pipeVars>>

ParseNext ==
    \/ PakOpen \/ PakEntry \/ PakReturn
    \/ WadOpen \/ WadEntry \/ WadReturn
    \/ Decode

SpecParse == ParseInit /\ [][ParseNext]_vars

----------------------------------------------------------------------------
(* main: inputs                                                            *)

MaxLumps == 2       \* directory records per generated gfx.wad
NumRuns == 2        \* invocations of the command on the same archive

palette_key == <<103, 102, 120, 47, 112, 97, 108, 101, 116, 116, 101, 46, 108, 109, 112>>
wad_key == <<103, 102, 120, 46, 119, 97, 100>>
PNG_EXT == <<46, 112, 110, 103>>                 \* ".png"

Upper(s) == [k \in 1..Len(s) |-> IF s[k] \in 97..122 THEN s[k] - 32 ELSE s[k]]

\* A PAK written the usual way: header, the member files one after another,
\* then the directory.
RECURSIVE TotalLen(_)
TotalLen(files) ==
    IF files = <<>> THEN 0 ELSE Len(Head(files).bytes) + TotalLen(Tail(files))
PakOf(magic, files) ==
    magic \o pack_u32(12 + TotalLen(files))
          \o pack_u32(PAK_ENTRY_SIZE * Len(files))
          \o Concat([k \in 1..Len(files) |-> files[k].bytes])
          \o Concat([k \in 1..Len(files) |->
                PakRecord([name   |-> files[k].name,
                           offset |-> 12 + TotalLen(SubSeq(files, 1, k - 1)),
                           size   |-> Len(files[k].bytes)])])

\* gfx.wad data area: one 2x1 QPIC (indices 0 and 255) at offset 12.
QpicBlob == pack_u32(2) \o pack_u32(1) \o <<0, 255>>
\* Lumps: name, type, region of the data area.  (12,10) is the whole QPIC,
\* (12,9) cuts its last pixel off, (12,5) cuts into its header.
LumpKinds ==
    { [name |-> <<97>>,         type |-> TYP_QPIC, offset |-> 12, size |-> 10],
      [name |-> <<65>>,         type |-> TYP_QPIC, offset |-> 12, size |-> 9],
      [name |-> <<97>>,         type |-> TYP_QPIC, offset |-> 12, size |-> 5],
      [name |-> <<98>>,         type |-> TYP_QPIC, offset |-> 12, size |-> 10],
      [name |-> <<98>>,         type |-> 68,       offset |-> 12, size |-> 10],
      [name |-> <<66>>,         type |-> TYP_QPIC, offset |-> 12, size |-> 9],
      [name |-> <<99, 47, 100>>, type |-> TYP_QPIC, offset |-> 12, size |-> 10] }
MainWads == {MkWad(WAD2, QpicBlob, recs, Len(recs)) : recs \in SeqsUpTo(LumpKinds, MaxLumps)}

GoodPalette == [k \in 1..PALETTE_BYTES |-> (k * 7) % 256]
ShortPalette == [k \in 1..(PALETTE_BYTES - 1) |-> (k * 7) % 256]
OneLump == <<[name |-> <<97>>, type |-> TYP_QPIC, offset |-> 12, size |-> 10]>>
GoodWad == MkWad(WAD2, QpicBlob, OneLump, 1)
BadMagicWad == MkWad(PACK, QpicBlob, OneLump, 1)
TruncatedWad == MkWad(WAD2, QpicBlob, OneLump, 2)
PalFile(b) == [name |-> palette_key, bytes |-> b]
WadFile(b) == [name |-> wad_key, bytes |-> b]

MainPaks ==
    {PakOf(PACK, <<PalFile(GoodPalette), WadFile(w)>>) : w \in MainWads}
    \cup
    { PakOf(PACK, <<>>),
      PakOf(PACK, <<WadFile(GoodWad)>>),
      PakOf(PACK, <<PalFile(GoodPalette)>>),
      PakOf(PACK, <<PalFile(ShortPalette), WadFile(GoodWad)>>),
      PakOf(PACK, <<PalFile(ShortPalette)>>),
      PakOf(PACK, <<PalFile(GoodPalette), WadFile(BadMagicWad)>>),
      PakOf(PACK, <<PalFile(GoodPalette), WadFile(TruncatedWad)>>),
      PakOf(PACK, <<PalFile(GoodPalette), WadFile(<<87, 65, 68, 50, 1>>)>>),
      PakOf(<<80, 65, 67, 88>>, <<PalFile(GoodPalette), WadFile(GoodWad)>>),
      PakOf(PACK, <<[name |-> Upper(palette_key), bytes |-> GoodPalette],
                    [name |-> Upper(wad_key), bytes |-> GoodWad]>>),
      PakOf(PACK, <<PalFile(ShortPalette), WadFile(BadMagicWad),
                    PalFile(GoodPalette), WadFile(GoodWad)>>),
      PakOf(PACK, <<PalFile(GoodPalette), WadFile(GoodWad),
                    WadFile(BadMagicWad)>>),
      SubSeq(PakOf(PACK, <<PalFile(GoodPalette), WadFile(GoodWad)>>), 1, 900),
      <<80, 65, 67, 75, 12, 0>> }

\* What the output directory holds before the first run.
StaleImage == [width |-> 1, height |-> 1, pixels |-> <<<<1, 2, 3, 255>>>>]
InitialDirs ==
    { EmptyDict,
      [f \in {<<97>> \o PNG_EXT, <<122>> \o PNG_EXT} |-> StaleImage] }

----------------------------------------------------------------------------
(* main                                                                    *)

\* Python's string order: lexicographic by code point.
LexLess(a, b) ==
    \E k \in 1..(MinOf(Len(a), Len(b)) + 1) :
        /\ \A j \in 1..(k - 1) : a[j] = b[j]
        /\ \/ k > Len(a) /\ k <= Len(b)
           \/ k <= Len(a) /\ k <= Len(b) /\ a[k] < b[k]

\* names of sorted(lumps.items())
RECURSIVE sorted(_)
sorted(S) ==
    IF S = {} THEN <<>>
    ELSE LET m == CHOOSE x \in S : \A y \in S \ {x} : LexLess(x, y)
         IN  <<m>> \o sorted(S \ {m})

\* Lines 96-117 in program order  (mutated by the variant that creates the
\* output directory before looking for gfx.wad)
step_after_mkdir_first(p) ==
    CASE p = "start" -> "read" [] p = "read" -> "palette"
      [] p = "palette" -> "mkdir" [] p = "mkdir" -> "wad" [] p = "wad" -> "loop"

step_after(p) ==
    CASE p = "start" -> "read" [] p = "read" -> "palette"
      [] p = "palette" -> "wad" [] p = "wad" -> "mkdir" [] p = "mkdir" -> "loop"

\* Line 126: output_dir / f"{name}.png", as a path below output_dir
out_path(name) == name \o PNG_EXT

\* Line 127: img.save raises when the path names a file in a subdirectory,
\* which main never creates; the directory is otherwise taken to be writable.
save_fails(name) == \E k \in 1..Len(name) : name[k] = 47

\* Line 127: img.save(out_path) replaces the file  (mutated by the variant
\* that opens an existing file for appending)
save_append(files, path, image) ==
    IF path \in DOMAIN files
      THEN DictSet(files, path, [image EXCEPT !.pixels = files[path].pixels \o @])
    ELSE DictSet(files, path, image)

save(files, path, image) == DictSet(files, path, image)

\* Lines 130-132: the except branch  (mutated by the variant that swallows
\* the failure without counting it)
on_failure_uncounted(n) == n

on_failure(n) == n + 1

\* Line 121: the type test  (mutated by the variant that decodes every lump)
is_qpic_any(lump_type) == TRUE

is_qpic(lump_type) == lump_type = TYP_QPIC

\* Lines 121-132: the loop body for one (name, (lump_type, data)) item.
loop_body(name, lump, pal, st) ==
    IF ~is_qpic(lump[1])
      THEN [st EXCEPT !.skipped = @ + 1]
    ELSE LET r == qpic_to_image(lump[2], pal)
             tried == [st EXCEPT !.attempted = @ \cup {name}]
         IN  IF r.status # "ok" \/ save_fails(name)
               THEN [tried EXCEPT !.skipped = on_failure(@)]
             ELSE [tried EXCEPT !.fs = save(@, out_path(name), r.img),
                                !.wrote = @ \cup {out_path(name)},
                                !.count = @ + 1]

Report(code, summary, files) ==
    [exitcode |-> code, summary |-> summary, files |-> files]

\* sys.exit(code), or an uncaught exception (status 1), before the loop
Die(code) ==
    /\ pc' = "done"
    /\ exitcode' = code
    /\ reports' = Append(reports, Report(code, <<>>, fs))

MainInit ==
    /\ pc = "start" /\ run = 1 /\ reports = <<>> /\ exitcode = -1
    /\ argc \in {1, 2}
    /\ pak \in MainPaks
    /\ canOpen \in BOOLEAN
    /\ canMkdir \in BOOLEAN
    /\ fs \in InitialDirs
    /\ (~canMkdir) => fs = EmptyDict
    /\ pak_entries = EmptyDict /\ palette = <<>> /\ lumps = EmptyDict
    /\ dirMade = FALSE /\ count = 0 /\ skipped = 0 /\ li = 0
    /\ attempted = {} /\ wrote = {}
    /\ ParseIdle /\ PipeIdle

inputs == <<argc, pak, canOpen, canMkdir>>

\* Lines 89-94
Start ==
    /\ pc = "start"
    /\ IF argc < 2
         THEN Die(1)
       ELSE pc' = step_after(pc) /\ UNCHANGED <<exitcode, reports>>
    /\ UNCHANGED <<inputs, pak_entries, palette, lumps, dirMade, fs, count,
                   skipped, li, attempted, wrote, run, parseVars, pipeVars>>

\* Lines 96-98
ReadPak ==
    /\ pc = "read"
    /\ LET r == read_pak(pak)
       IN  IF ~canOpen \/ r.status # "ok"
             THEN Die(1) /\ UNCHANGED pak_entries
           ELSE /\ pak_entries' = r.entries
                /\ pc' = step_after(pc)
                /\ UNCHANGED <<exitcode, reports>>
    /\ UNCHANGED <<inputs, palette, lumps, dirMade, fs, count, skipped, li,
                   attempted, wrote, run, parseVars, pipeVars>>

\* Lines 100-106
LoadPalette ==
    /\ pc = "palette"
    /\ IF palette_key \notin DOMAIN pak_entries
         THEN Die(1) /\ UNCHANGED palette
       ELSE LET r == read_palette(pak_entries[palette_key])
            IN  IF r.status # "ok"
                  THEN Die(1) /\ UNCHANGED palette
                ELSE /\ palette' = r.palette
                     /\ pc' = step_after(pc)
                     /\ UNCHANGED <<exitcode, reports>>
    /\ UNCHANGED <<inputs, pak_entries, lumps, dirMade, fs, count, skipped,
                   li, attempted, wrote, run, parseVars, pipeVars>>

\* Lines 108-114
LoadWad ==
    /\ pc = "wad"
    /\ IF wad_key \notin DOMAIN pak_entries
         THEN Die(1) /\ UNCHANGED lumps
       ELSE LET r == read_wad(pak_entries[wad_key])
            IN  IF r.status # "ok"
                  THEN Die(1) /\ UNCHANGED lumps
                ELSE /\ lumps' = r.lumps
                     /\ pc' = step_after(pc)
                     /\ UNCHANGED <<exitcode, reports>>
    /\ UNCHANGED <<inputs, pak_entries, palette, dirMade, fs, count, skipped,
                   li, attempted, wrote, run, parseVars, pipeVars>>

\* Lines 117-119
Mkdir ==
    /\ pc = "mkdir"
    /\ IF ~canMkdir
         THEN Die(1) /\ UNCHANGED <<dirMade, count, skipped>>
       ELSE /\ dirMade' = TRUE
            /\ count' = 0
            /\ skipped' = 0
            /\ pc' = step_after(pc)
            /\ UNCHANGED <<exitcode, reports>>
    /\ UNCHANGED <<inputs, pak_entries, palette, lumps, fs, li, attempted,
                   wrote, run, parseVars, pipeVars>>

\* Lines 120-132: one pass of the loop over sorted(lumps.items())
LoopBody ==
    /\ pc = "loop"
    /\ li < Cardinality(DOMAIN lumps)
    /\ LET name == sorted(DOMAIN lumps)[li + 1]
           st   == loop_body(name, lumps[name], palette,
                             [count |-> count, skipped |-> skipped, fs |-> fs,
                              wrote |-> wrote, attempted |-> attempted])
       IN  /\ count' = st.count
           /\ skipped' = st.skipped
           /\ fs' = st.fs
           /\ wrote' = st.wrote
           /\ attempted' = st.attempted
    /\ li' = li + 1
    /\ UNCHANGED <<inputs, pc, pak_entries, palette, lumps, dirMade, exitcode,
                   run, reports, parseVars, pipeVars>>

\* Line 134, and the normal end of the process
Finish ==
    /\ pc = "loop"
    /\ li >= Cardinality(DOMAIN lumps)
    /\ pc' = "done"
    /\ exitcode' = 0
    /\ reports' = Append(reports, Report(0, <<count, skipped>>, fs))
    /\ UNCHANGED <<inputs, pak_entries, palette, lumps, count, skipped, li,
                   dirMade, fs, attempted, wrote, run, parseVars, pipeVars>>

\* Lines 137-138: the command is invoked again on the same archive and
\* output directory; main's locals start afresh.
Rerun ==
    /\ pc = "done"
    /\ run < NumRuns
    /\ run' = run + 1
    /\ pc' = "start"
    /\ exitcode' = -1
    /\ pak_entries' = EmptyDict /\ palette' = <<>> /\ lumps' = EmptyDict
    /\ count' = 0 /\ skipped' = 0 /\ li' = 0
    /\ dirMade' = FALSE /\ attempted' = {} /\ wrote' = {}
    /\ UNCHANGED <<inputs, fs, reports, parseVars, pipeVars>>

MainNext ==
    \/ Start \/ ReadPak \/ LoadPalette \/ LoadWad \/ Mkdir
    \/ LoopBody \/ Finish \/ Rerun

Spec == MainInit /\ [][MainNext]_vars

----------------------------------------------------------------------------
(* pipeline.py                                                             *)

MaxArgs == 5        \* length of the generated argument lists

AND == "&&"
ArgWords == {AND, "a", "b"}

\* What a child can do: exit with a code, be killed by a signal (negative
\* returncode), or fail to start (subprocess.run raises).
ReturnCodes == {0, 1, 2, 255, -9}

\* Exit status of the script after sys.exit(code): the low 8 bits.
sys_exit(code) == code % 256

\* Line 26: the abort test  (mutated by the variant that runs on regardless)
should_abort_never(returncode) == FALSE

should_abort(returncode) == returncode # 0

\* Lines 15-20: the body of the splitting loop for one argument.
split_arg(arg, cur, cmds) ==
    IF arg = AND
      THEN IF cur # <<>>
             THEN [current |-> <<>>, commands |-> Append(cmds, cur)]
           ELSE [current |-> cur, commands |-> cmds]
    ELSE [current |-> Append(cur, arg), commands |-> cmds]

PipeInit ==
    /\ argv \in SeqsUpTo(ArgWords, MaxArgs)
    /\ ppc = "split" /\ ai = 0 /\ current = <<>> /\ commands = <<>>
    /\ ci = 0 /\ started = <<>> /\ rcs = <<>> /\ pexit = -1
    /\ ParseIdle /\ MainIdle

\* Lines 14-20: one pass of the splitting loop
SplitArg ==
    /\ ppc = "split" /\ ai < Len(argv)
    /\ LET r == split_arg(argv[ai + 1], current, commands)
       IN  current' = r.current /\ commands' = r.commands
    /\ ai' = ai + 1
    /\ UNCHANGED <<argv, ppc, ci, started, rcs, pexit, parseVars, mainVars>>

\* Lines 21-22
SplitEnd ==
    /\ ppc = "split" /\ ai >= Len(argv)
    /\ commands' = IF current # <<>> THEN Append(commands, current) ELSE commands
    /\ ppc' = "run"
    /\ UNCHANGED <<argv, ai, current, ci, started, rcs, pexit, parseVars, mainVars>>

\* Lines 24-27: one pass of the running loop; the child runs to its end
RunCmd ==
    /\ ppc = "run" /\ ci < Len(commands)
    /\ started' = Append(started, commands[ci + 1])
    /\ \E returncode \in ReturnCodes :
          /\ rcs' = Append(rcs, returncode)
          /\ IF should_abort(returncode)
               THEN ppc' = "done" /\ pexit' = sys_exit(returncode)
             ELSE UNCHANGED <<ppc, pexit>>
    /\ ci' = ci + 1
    /\ UNCHANGED <<argv, ai, current, commands, parseVars, mainVars>>

\* Line 25: subprocess.run raises (the program cannot be started); the
\* exception is not caught and the script ends with status 1
RunFails ==
    /\ ppc = "run" /\ ci < Len(commands)
    /\ started' = Append(started, commands[ci + 1])
    /\ ppc' = "done"
    /\ pexit' = 1
    /\ ci' = ci + 1
    /\ UNCHANGED <<argv, ai, current, commands, rcs, parseVars, mainVars>>

\* The loop is exhausted and the script ends normally
PipeEnd ==
    /\ ppc = "run" /\ ci >= Len(commands)
    /\ ppc' = "done"
    /\ pexit' = 0
    /\ UNCHANGED <<argv, ai, current, commands, ci, started, rcs, parseVars, mainVars>>

PipeNext == SplitArg \/ SplitEnd \/ RunCmd \/ RunFails \/ PipeEnd

SpecPipe == PipeInit /\ [][PipeNext]_vars

----------------------------------------------------------------------------
(* The two directory formats, read straight from the bytes                 *)

PakDirOffset(file) == unpack_u32(file, 4)
PakDirSize(file) == unpack_u32(file, 8)
PakCount(file) == PakDirSize(file) \div PAK_ENTRY_SIZE

\* Directory record k (0-based): lowercased name, offset, size.
PakRec(file, k) ==
    LET base == PakDirOffset(file) + PAK_ENTRY_SIZE * k
    IN  [key    |-> lower(decode_ascii(CutAtNul(Slice(file, base, base + PAK_NAME_SIZE)))),
         offset |-> unpack_u32(file, base + PAK_NAME_SIZE),
         size   |-> unpack_u32(file, base + PAK_NAME_SIZE + 4)]

\* The bytes a record points at.
PakPayload(file, r) == Slice(file, r.offset, r.offset + r.size)

WadCount(buf) == unpack_u32(buf, 4)
WadDirOffset(buf) == unpack_u32(buf, 8)

\* Directory record k (0-based): lowercased name, type, offset, size on disk.
WadRec(buf, k) ==
    LET base == WadDirOffset(buf) + WAD_ENTRY_SIZE * k
    IN  [key    |-> lower(decode_ascii(CutAtNul(Slice(buf, base + 16, base + 32)))),
         type   |-> buf[base + 13],
         offset |-> unpack_u32(buf, base),
         size   |-> unpack_u32(buf, base + 4)]

WadPayload(buf, r) == Slice(buf, r.offset, r.offset + r.size)

\* A valid outer archive: directory size a multiple of the record size, the
\* directory and every data region inside the file, names distinct after
\* lowercasing.
PakValid(file) ==
    /\ Len(file) >= 12
    /\ Slice(file, 0, 4) = PACK
    /\ PakDirSize(file) % PAK_ENTRY_SIZE = 0
    /\ PakDirOffset(file) + PakDirSize(file) <= Len(file)
    /\ \A k \in 0..(PakCount(file) - 1) :
          /\ PakRec(file, k).offset + PakRec(file, k).size <= Len(file)
          /\ \A j \in 0..(k - 1) : PakRec(file, j).key # PakRec(file, k).key

\* The archive can be read to the end: magic, 12-byte header, and every
\* declared directory record present in the file.
PakParses(file) ==
    /\ Len(file) >= 12
    /\ Slice(file, 0, 4) = PACK
    /\ PakDirOffset(file) + PAK_ENTRY_SIZE * PakCount(file) <= Len(file)

PakHas(file, key) == \E k \in 0..(PakCount(file) - 1) : PakRec(file, k).key = key

\* The member a name resolves to: the last directory record with that name.
PakMember(file, key) ==
    LET ks == {k \in 0..(PakCount(file) - 1) : PakRec(file, k).key = key}
    IN  PakPayload(file, PakRec(file, CHOOSE k \in ks : \A j \in ks : j <= k))

\* The nested container can be read to the end.
WadParses(buf) ==
    /\ Slice(buf, 0, 4) = WAD2
    /\ Len(buf) >= 12
    /\ \A k \in 0..(WadCount(buf) - 1) :
          Len(buf) - (WadDirOffset(buf) + WAD_ENTRY_SIZE * k) >= WAD_UNPACK_SIZE

\* A QPIC lump that cannot be decoded: too short for its header, or fewer
\* pixel bytes than width*height.
QpicBad(lump) ==
    \/ Len(lump) < 8
    \/ unpack_u32(lump, 0) * unpack_u32(lump, 4) > Len(lump) - 8

----------------------------------------------------------------------------
(* Claims about main (Spec)                                                *)

Bitmaps == {n \in DOMAIN lumps : lumps[n][1] = TYP_QPIC}
Failing == {n \in Bitmaps : QpicBad(lumps[n][2]) \/ save_fails(n)}
CurrentName == sorted(DOMAIN lumps)[li + 1]

\* C1: failure isolation.  A pass of the loop over a bitmap record whose
\* decode or write fails adds exactly one to skipped, counts and writes no
\* file, and leaves the run in the loop; a run that entered the loop ends
\* with status 0, having attempted every bitmap record and written every
\* bitmap record that does not fail.
C1_FailureIsolation ==
    /\ [][(pc = "loop" /\ li < Cardinality(DOMAIN lumps) /\ CurrentName \in Failing)
            => /\ pc' = "loop"
               /\ li' = li + 1
               /\ skipped' = skipped + 1
               /\ count' = count
               /\ fs' = fs /\ wrote' = wrote]_vars
    /\ []((pc = "done" /\ dirMade) =>
            /\ exitcode = 0
            /\ attempted = Bitmaps
            /\ \A n \in Bitmaps \ Failing :
                  /\ out_path(n) \in wrote
                  /\ fs[out_path(n)] = qpic_to_image(lumps[n][2], palette).img)

\* Witness of C1: a finished run over a container in which a failing bitmap
\* record sorts before a good one; the good one was written.
C1_Witness ==
    /\ pc = "done" /\ exitcode = 0 /\ skipped >= 1 /\ count >= 1
    /\ \E a \in Failing : \E b \in Bitmaps \ Failing :
          /\ LexLess(a, b)
          /\ QpicBad(lumps[a][2])
          /\ out_path(b) \in wrote

\* C2: when the archive has no gfx/palette.lmp or no gfx.wad record (names
\* compared after lowercasing), the run never reaches the mkdir, writes no
\* file, and ends with a nonzero status.
C2_NoOutputOnMissingBlob ==
    (PakParses(pak) /\ (~PakHas(pak, palette_key) \/ ~PakHas(pak, wad_key))) =>
        /\ ~dirMade
        /\ wrote = {}
        /\ pc \notin {"mkdir", "loop"}
        /\ pc = "done" => exitcode # 0

\* Witness of C2: the palette was found and loaded, gfx.wad is absent, and
\* the run has ended.
C2_Witness ==
    /\ pc = "done" /\ exitcode = 1 /\ argc = 2 /\ canOpen
    /\ PakParses(pak) /\ PakHas(pak, palette_key) /\ ~PakHas(pak, wad_key)
    /\ palette # <<>>

\* C3 (as claimed): when every bitmap record of the parsed container is
\* decodable, the run writes one file per bitmap record and reports
\* written = number of bitmap records, skipped = number of other records.
C3_CountsAsClaimed ==
    (pc = "done" /\ exitcode = 0 /\ \A n \in Bitmaps : ~QpicBad(lumps[n][2])) =>
        /\ count = Cardinality(Bitmaps)
        /\ skipped = Cardinality(DOMAIN lumps \ Bitmaps)
        /\ Cardinality(wrote) = Cardinality(Bitmaps)

\* C3 (amended): a run that completes the loop reports written = the number
\* of bitmap records of the parsed container that decode and whose file can
\* be written, and skipped = the number of all other records; it writes
\* exactly the files of the former; written + skipped is the number of
\* records of the parsed container (one per distinct lowercased name of the
\* directory); no record of another type is passed to the decoder.
C3_Counts ==
    (pc = "done" /\ exitcode = 0) =>
        /\ count = Cardinality(Bitmaps \ Failing)
        /\ skipped = Cardinality(DOMAIN lumps \ (Bitmaps \ Failing))
        /\ count + skipped = Cardinality(DOMAIN lumps)
        /\ wrote = {out_path(n) : n \in Bitmaps \ Failing}
        /\ attempted = Bitmaps
        /\ reports[Len(reports)].summary = <<count, skipped>>
        /\ LET w == PakMember(pak, wad_key)
           IN  DOMAIN lumps = {WadRec(w, k).key : k \in 0..(WadCount(w) - 1)}

\* Witness of C3: a finished run over a container holding a good bitmap
\* record and a record of another type.
C3_Witness ==
    /\ pc = "done" /\ exitcode = 0 /\ count = 1 /\ skipped = 1
    /\ Bitmaps \ Failing # {} /\ DOMAIN lumps \ Bitmaps # {}

\* What the claim lists as fatal: a required blob missing, or a bad magic
\* in the archive or in gfx.wad.
ClaimedFatal ==
    \/ Slice(pak, 0, 4) # PACK
    \/ /\ PakParses(pak)
       /\ \/ ~PakHas(pak, palette_key)
          \/ ~PakHas(pak, wad_key)
          \/ Slice(PakMember(pak, wad_key), 0, 4) # WAD2

\* No header or directory of the archive or of its gfx.wad is cut short.
Untruncated ==
    /\ Len(pak) >= 12
    /\ PakDirOffset(pak) + PAK_ENTRY_SIZE * PakCount(pak) <= Len(pak)
    /\ PakHas(pak, wad_key) =>
          LET w == PakMember(pak, wad_key)
          IN  Slice(w, 0, 4) = WAD2 => WadParses(w)

\* C4 (as claimed): invoked with an archive that opens, in which nothing is
\* cut short, and an output directory that can be created, the process exits
\* nonzero exactly when a required blob is missing or a magic check fails,
\* and exits zero in every other case.
C4_ExitAsClaimed ==
    (pc = "done" /\ argc >= 2 /\ canOpen /\ canMkdir /\ Untruncated) =>
        (exitcode # 0 <=> ClaimedFatal)

\* Everything that ends the run before the loop.
Fatal ==
    \/ argc < 2
    \/ ~canOpen
    \/ ~PakParses(pak)
    \/ ~PakHas(pak, palette_key)
    \/ Len(PakMember(pak, palette_key)) < PALETTE_BYTES
    \/ ~PakHas(pak, wad_key)
    \/ ~WadParses(PakMember(pak, wad_key))
    \/ ~canMkdir

\* C4 (amended): the process exits nonzero (status 1) exactly when no
\* archive argument is given, the archive cannot be opened, its magic is
\* wrong or its header or directory is cut short, gfx/palette.lmp is missing
\* or shorter than 768 bytes, gfx.wad is missing, has the wrong magic or a
\* header or directory cut short, or the output directory cannot be created;
\* in every other case it exits zero after the summary, having written zero
\* or more files.
C4_ExitStatus ==
    pc = "done" =>
        /\ exitcode \in {0, 1}
        /\ exitcode # 0 <=> Fatal
        /\ exitcode # 0 => reports[Len(reports)].summary = <<>> /\ wrote = {}
        /\ exitcode = 0 =>
              /\ reports[Len(reports)].summary = <<count, skipped>>
              /\ count = Cardinality(wrote)

\* Witness of C4: both blobs are present and gfx.wad is well formed, but the
\* palette is one byte short; the run ended with status 1.
C4_Witness ==
    /\ pc = "done" /\ exitcode = 1 /\ argc = 2 /\ canOpen /\ canMkdir
    /\ PakParses(pak) /\ PakHas(pak, palette_key) /\ PakHas(pak, wad_key)
    /\ Len(PakMember(pak, palette_key)) = PALETTE_BYTES - 1
    /\ WadParses(PakMember(pak, wad_key))

\* C9: every later run on the same archive and output directory ends with
\* the same exit status and the same written/skipped summary as the first,
\* and leaves the directory with the same files and contents.
C9_Idempotent ==
    \A r \in 2..Len(reports) : reports[r] = reports[1]

\* Witness of C9: two successful runs, each writing a.png over a file of
\* that name that was in the directory beforehand.
C9_Witness ==
    /\ Len(reports) = 2 /\ reports[1].exitcode = 0 /\ reports[2].exitcode = 0
    /\ reports[1].summary[1] >= 1 /\ reports[2].summary[1] >= 1
    /\ <<122>> \o PNG_EXT \in DOMAIN fs
    /\ out_path(<<97>>) \in wrote
    /\ fs[out_path(<<97>>)] # StaleImage

----------------------------------------------------------------------------
(* Claims about the parsing functions (SpecParse)                          *)

\* C5: for a valid outer archive of N directory records, read_pak returns
\* exactly one entry per record, keyed by the record's lowercased name, whose
\* value is exactly the `size` bytes found at the record's `offset`
\* (overlapping and re-used regions included).
C5_OneEntryPerRecord ==
    (mode = "pak" /\ status # "init" /\ PakValid(data)) =>
        /\ status \in {"run", "ok"}
        /\ status = "ok" =>
             /\ Cardinality(DOMAIN entries) = PakCount(data)
             /\ \A k \in 0..(PakCount(data) - 1) :
                   LET r == PakRec(data, k)
                   IN  /\ r.key \in DOMAIN entries
                       /\ Len(entries[r.key]) = r.size
                       /\ \A b \in 1..r.size :
                             entries[r.key][b] = data[r.offset + b]

\* Witness of C5: a valid archive of two records whose data regions overlap
\* has been read to the end.
C5_Witness ==
    /\ mode = "pak" /\ status = "ok" /\ PakValid(data)
    /\ PakCount(data) = 2
    /\ PakRec(data, 0).offset < PakRec(data, 1).offset
    /\ PakRec(data, 1).offset < PakRec(data, 0).offset + PakRec(data, 0).size

\* C6: last write wins.  After the first i directory records have been read,
\* the mapping has exactly the lowercased names of those records as keys, and
\* each key holds the payload (for the nested container: type and payload)
\* of the last of those records that has that name.
C6_LastWriteWins ==
    /\ (mode = "pak" /\ status \in {"run", "ok"}) =>
          /\ DOMAIN entries = {PakRec(data, k).key : k \in 0..(i - 1)}
          /\ \A k \in 0..(i - 1) :
                (\A j \in (k + 1)..(i - 1) : PakRec(data, j).key # PakRec(data, k).key)
                    => entries[PakRec(data, k).key] = PakPayload(data, PakRec(data, k))
    /\ (mode = "wad" /\ status \in {"run", "ok"}) =>
          /\ DOMAIN wlumps = {WadRec(data, k).key : k \in 0..(i - 1)}
          /\ \A k \in 0..(i - 1) :
                (\A j \in (k + 1)..(i - 1) : WadRec(data, j).key # WadRec(data, k).key)
                    => wlumps[WadRec(data, k).key]
                         = <<WadRec(data, k).type, WadPayload(data, WadRec(data, k))>>

\* Witness of C6: an archive whose two records are named "A" and "a" and
\* point at different bytes has been read to the end.
C6_Witness ==
    /\ mode = "pak" /\ status = "ok" /\ i = 2
    /\ PakRec(data, 0).key = PakRec(data, 1).key
    /\ PakPayload(data, PakRec(data, 0)) # PakPayload(data, PakRec(data, 1))

\* The same case in the nested container: two records with one name, of
\* different types.
C6_WitnessWad ==
    /\ mode = "wad" /\ status = "ok" /\ i = 2
    /\ WadRec(data, 0).key = WadRec(data, 1).key
    /\ WadRec(data, 0).type # WadRec(data, 1).type

\* C7 (as claimed): read_pak never returns a mapping for an archive whose
\* directory size is not a multiple of the 64-byte record size.
C7_RejectsRaggedDirectory ==
    (mode = "pak" /\ Len(data) >= 12 /\ PakDirSize(data) % PAK_ENTRY_SIZE # 0)
        => status # "ok"

\* C8: qpic_to_image fails when the declared width*height exceeds the bytes
\* that follow the 8-byte header (and when the lump is too short to hold the
\* header); otherwise it returns a width x height raster whose k-th pixel is
\* palette[lump[8+k]], every index is in the palette's range, and index 255
\* gives a transparent pixel.
C8_DecoderContract ==
    (mode = "qpic" /\ status # "init") =>
        IF Len(data) < 8 THEN status = "struct.error" /\ img = NoImage
        ELSE LET w == unpack_u32(data, 0)
                 h == unpack_u32(data, 4)
             IN  IF w * h > Len(data) - 8
                   THEN status = "ValueError" /\ img = NoImage
                 ELSE /\ status = "ok"
                      /\ img.width = w /\ img.height = h
                      /\ Len(img.pixels) = w * h
                      /\ \A k \in 0..(w * h - 1) :
                            /\ data[8 + k + 1] \in DOMAIN inpal
                            /\ img.pixels[k + 1] = inpal[data[8 + k + 1]]
                            /\ data[8 + k + 1] = 255 => img.pixels[k + 1][4] = 0
                            /\ data[8 + k + 1] # 255 => img.pixels[k + 1][4] = 255

\* Witness of C8: a 2x1 lump with one index 255 and one other index, and a
\* spare trailing byte, has been decoded.
C8_Witness ==
    /\ mode = "qpic" /\ status = "ok"
    /\ img.width = 2 /\ img.height = 1 /\ Len(data) = 8 + 3
    /\ data[9] # 255 /\ data[10] = 255

\* The failing side of C8: a lump declaring 2x2 pixels with three present.
C8_WitnessTruncated ==
    /\ mode = "qpic" /\ status = "ValueError"
    /\ unpack_u32(data, 0) = 2 /\ unpack_u32(data, 4) = 2 /\ Len(data) = 8 + 3

----------------------------------------------------------------------------
(* Claims about pipeline.py (SpecPipe)                                     *)

\* The argument list with a separator kept only where it stands directly
\* after a word and a word follows somewhere later.
RECURSIVE KeepFrom(_, _)
KeepFrom(args, k) ==
    IF k > Len(args) THEN <<>>
    ELSE LET keep == \/ args[k] # AND
                     \/ /\ k > 1 /\ args[k - 1] # AND
                        /\ \E j \in (k + 1)..Len(args) : args[j] # AND
         IN  (IF keep THEN <<args[k]>> ELSE <<>>) \o KeepFrom(args, k + 1)

\* The groups written out again with one separator between neighbours.
RECURSIVE Joined(_)
Joined(cmds) ==
    IF cmds = <<>> THEN <<>>
    ELSE IF Len(cmds) = 1 THEN cmds[1]
    ELSE cmds[1] \o <<AND>> \o Joined(Tail(cmds))

\* C10: the groups are the non-empty maximal runs of arguments between '&&'
\* tokens, in order; they are started one at a time in that order, each only
\* after every earlier one returned 0; when a child returns nonzero the
\* script ends with that child's exit code and starts nothing more; when all
\* return 0, or there is no group, it ends with 0.
C10_Sequencer ==
    /\ [](ppc \in {"run", "done"} =>
            /\ \A k \in 1..Len(commands) :
                  commands[k] # <<>> /\ \A j \in 1..Len(commands[k]) : commands[k][j] # AND
            /\ Joined(commands) = KeepFrom(argv, 1)
            /\ Len(started) <= Len(commands)
            /\ started = SubSeq(commands, 1, Len(started))
            /\ \A k \in 1..Len(rcs) : k < Len(started) => rcs[k] = 0)
    /\ [](ppc = "done" =>
            IF Len(rcs) < Len(started)
              THEN pexit = 1
            ELSE IF \A k \in 1..Len(rcs) : rcs[k] = 0
              THEN pexit = 0 /\ started = commands
            ELSE LET last == rcs[Len(rcs)]
                 IN  /\ last # 0 /\ pexit # 0
                     /\ last \in 1..255 => pexit = last)
    /\ [][(rcs # <<>> /\ rcs[Len(rcs)] # 0) => started' = started]_vars

\* Witness of C10: three groups; the first returned 0, the second returned
\* 2, the third was never started and the script ended with status 2.
C10_Witness ==
    /\ ppc = "done" /\ Len(commands) = 3
    /\ started = SubSeq(commands, 1, 2)
    /\ rcs = <<0, 2>> /\ pexit = 2

====
